---------------------------- MODULE Spec2Model ----------------------------
(***************************************************************************)
(* A model of the bookScrapper repository:                                 *)
(*   - scrapping/scrapper.py : BookScraper._extract_book_details,          *)
(*     BookScraper.scrape_books and the crawl lambdaHandler;               *)
(*   - processing/processor.py : BookProcessor._clean_data,                *)
(*     BookProcessor.process_data and the processing lambdaHandler.        *)
(* Text is modelled as sequences of one-character strings, so that         *)
(* prefix tests, symbol stripping, number parsing and URL joining are      *)
(* computed as the code computes them.                                     *)
(***************************************************************************)
EXTENDS Integers, Sequences, FiniteSets, TLC

VARIABLES
    \* ---- processing/processor.py ----
    rawFile,      \* the raw CSV file the configuration points at
    parquet,      \* the file processed_data/books_data.parquet
    runs,         \* number of calls of the processing lambdaHandler so far
    procCalls,    \* number of calls of process_data so far
    writes,       \* number of completed writes of the parquet file so far
    procRet,      \* what the last call of process_data returned
    procLog,      \* the exception the last call of process_data logged, if any
    procResult,   \* what the last call of the processing lambdaHandler returned
    \* ---- scrapping/scrapper.py: the crawl ----
    maxPages,     \* ScrapingConfig.MAX_PAGES, defined or not
    csvFile,      \* the file raw_data/books_data.csv
    crawlPc,      \* where the crawl lambdaHandler is
    page_url,     \* scrape_books: page_url ("None" for None)
    page_count,   \* scrape_books: page_count
    fetches,      \* number of listing-page requests made so far
    books_data,   \* scrape_books: books_data
    pending,      \* the entries of the fetched page not yet extracted
    entryIdx,     \* position in the page of the last entry taken
    nextKind,     \* the 'next' control of the fetched page
    retries,      \* _extract_book_details: retries
    subcategory,  \* _extract_book_details: subcategory
    detailReqs,   \* number of detail-page requests made for the current entry
    allTransport, \* every detail request for the current entry failed so far
    detail_page,  \* _extract_book_details: the response to the last detail request
    visited,      \* the entries of the listing pages fetched so far, in order of the fetches
    itemDone,     \* the retry loop of the current entry has ended
    csv_path,     \* what scrape_books returned ("None" for None)
    crawlResult,  \* what the crawl lambdaHandler returned
    \* ---- scrapping/scrapper.py: the detail URL of one entry ----
    url_base,     \* self.base_url
    relative_url, \* the entry's href
    product_url,  \* the resolved detail URL
    urlDone       \* the URL has been resolved

cleanVars == <<rawFile, parquet, runs, procCalls, writes, procRet, procLog, procResult>>

crawlVars ==
    <<maxPages, csvFile, crawlPc, page_url, page_count, fetches, books_data, pending,
      entryIdx, nextKind, retries, subcategory, detailReqs, allTransport,
      detail_page, visited, itemDone,
      csv_path, crawlResult>>

urlVars == <<url_base, relative_url, product_url, urlDone>>

vars == <<cleanVars, crawlVars, urlVars>>

----------------------------------------------------------------------------
(***************************************************************************)
(* Text helpers (Python str operations used by the code).                  *)
(***************************************************************************)

\* s.startswith(p)
StartsWith(s, p) == Len(s) >= Len(p) /\ SubSeq(s, 1, Len(p)) = p

\* s.endswith(p)
EndsWith(s, p) == Len(s) >= Len(p) /\ SubSeq(s, Len(s) - Len(p) + 1, Len(s)) = p

\* sub in s
Contains(s, sub) ==
    \E i \in 1..(Len(s) - Len(sub) + 1) : SubSeq(s, i, i + Len(sub) - 1) = sub

UpperChars ==
    <<"A", "B", "C", "D", "E", "F", "G", "H", "I", "J", "K", "L", "M",
      "N", "O", "P", "Q", "R", "S", "T", "U", "V", "W", "X", "Y", "Z">>

LowerChars ==
    <<"a", "b", "c", "d", "e", "f", "g", "h", "i", "j", "k", "l", "m",
      "n", "o", "p", "q", "r", "s", "t", "u", "v", "w", "x", "y", "z">>

\* s.lower()
Lower(s) ==
    [i \in 1..Len(s) |->
        IF \E k \in 1..26 : UpperChars[k] = s[i]
        THEN LowerChars[CHOOSE k \in 1..26 : UpperChars[k] = s[i]]
        ELSE s[i]]

IsNotPound(c) == c # "£"

\* s.replace('£', ''): every occurrence is removed, not only a prefix
RemovePound(s) == SelectSeq(s, IsNotPound)

Digits == <<"0", "1", "2", "3", "4", "5", "6", "7", "8", "9">>

IsDigit(c) == \E k \in 1..10 : Digits[k] = c

DigitVal(c) == (CHOOSE k \in 1..10 : Digits[k] = c) - 1

RECURSIVE Pow10(_)
Pow10(n) == IF n = 0 THEN 1 ELSE 10 * Pow10(n - 1)

RECURSIVE DigitsValue(_)
\* the natural number a sequence of digits denotes
DigitsValue(s) ==
    IF Len(s) = 0 THEN 0
    ELSE 10 * DigitsValue(SubSeq(s, 1, Len(s) - 1)) + DigitVal(s[Len(s)])

(***************************************************************************)
(* Numbers.  A parsed number is mant / 10^exp with a sign; NaN is pandas'  *)
(* not-a-number placeholder.                                               *)
(***************************************************************************)
NaN == [nan |-> TRUE, neg |-> FALSE, mant |-> 0, exp |-> 0]

Num(neg, mant, exp) == [nan |-> FALSE, neg |-> neg, mant |-> mant, exp |-> exp]

\* v >= k and v <= k for an integer k >= 0 (a comparison with NaN is False)
NumGe(v, k) == ~v.nan /\ ((~v.neg /\ v.mant >= k * Pow10(v.exp)) \/ (k = 0 /\ v.mant = 0))

NumLe(v, k) == ~v.nan /\ (v.neg \/ v.mant <= k * Pow10(v.exp))

NumIsInteger(v) == ~v.nan /\ v.mant % Pow10(v.exp) = 0

\* text is a plain decimal: [sign] digits [. digits], with at least one digit
IsDecimalText(s) ==
    LET body == IF Len(s) > 0 /\ s[1] \in {"-", "+"} THEN Tail(s) ELSE s
        dots == {i \in 1..Len(body) : body[i] = "."}
    IN  /\ Cardinality(dots) <= 1
        /\ \A i \in 1..Len(body) : IsDigit(body[i]) \/ body[i] = "."
        /\ \E i \in 1..Len(body) : IsDigit(body[i])

\* pd.to_numeric(cell, errors='coerce') on one cell: the empty cell (missing
\* value) and text that is no number become NaN
ToNumeric(s) ==
    IF ~IsDecimalText(s) THEN NaN
    ELSE
        LET neg  == s[1] = "-"
            body == IF s[1] \in {"-", "+"} THEN Tail(s) ELSE s
            dots == {i \in 1..Len(body) : body[i] = "."}
            dot  == IF dots = {} THEN Len(body) + 1 ELSE CHOOSE i \in dots : TRUE
            ip   == SubSeq(body, 1, dot - 1)
            fp   == SubSeq(body, dot + 1, Len(body))
        IN  Num(neg, DigitsValue(ip \o fp), Len(fp))

----------------------------------------------------------------------------
(***************************************************************************)
(* processing/processor.py                                                 *)
(*                                                                         *)
(* A raw row is a record of five cells of text; the empty cell is a        *)
(* missing value (pandas reads it as NaN).  A raw file is missing, empty   *)
(* (zero bytes) or a table with a header and rows.                         *)
(***************************************************************************)
NA == << >>

Row(t, p, r, a, u) == [Title |-> t, Price |-> p, Rating |-> r, Availability |-> a, URL |-> u]

\* pd.read_csv type inference for the Price column: a column whose present
\* cells are all numbers is read as a numeric column, any text cell makes it
\* an object (string) column; a table without rows has object columns
PriceDtype(rows) ==
    IF Len(rows) = 0 \/ \E i \in 1..Len(rows) :
                            rows[i].Price # NA /\ ~IsDecimalText(rows[i].Price)
    THEN "object" ELSE "float64"

\* pd.read_csv(input_csv): raises for a missing file and for an empty file
\* (EmptyDataError)
ReadCsv(file) ==
    IF file.kind # "table"
    THEN [raised |-> TRUE, rows |-> << >>, priceDtype |-> "object"]
    ELSE [raised |-> FALSE, rows |-> file.rows, priceDtype |-> PriceDtype(file.rows)]

\* mutant: 'URL' left out of the subset
CriticalPresentNoURL(r) ==
    /\ r.Title # NA
    /\ r.Price # NA
    /\ r.Rating # NA
    /\ r.Availability # NA

\* mutant: 'Title' left out of the subset
CriticalPresentNoTitle(r) ==
    /\ r.Price # NA
    /\ r.Rating # NA
    /\ r.Availability # NA
    /\ r.URL # NA

CriticalPresent(r) ==
    /\ r.Title # NA
    /\ r.Price # NA
    /\ r.Rating # NA
    /\ r.Availability # NA
    /\ r.URL # NA

\* df.dropna(subset=['Title', 'Price', 'Rating', 'Availability', 'URL'])
DropNa(rows) == SelectSeq(rows, CriticalPresent)

\* df['Price'].str raises AttributeError unless the column holds strings
PriceStrRaises(dtype) == dtype # "object"

\* pd.to_numeric(df['Price'].str.replace('£', ''), errors='coerce')
ConvertPrice(rows) ==
    [i \in 1..Len(rows) |-> [rows[i] EXCEPT !.Price = ToNumeric(RemovePound(@))]]

\* pd.to_numeric(df['Rating'], errors='coerce')
ConvertRating(rows) ==
    [i \in 1..Len(rows) |-> [rows[i] EXCEPT !.Rating = ToNumeric(@)]]

\* mutant: the upper bound of the range left out
RatingAtLeastOne(r) == NumGe(r.Rating, 1)

RatingInRange(r) == NumGe(r.Rating, 1) /\ NumLe(r.Rating, 5)

RatingInRangeAndPriceParsed(r) == RatingInRange(r) /\ ~r.Price.nan

\* mutant: rows whose Price is NaN are filtered out as well
FilterRatingAndPrice(rows) == SelectSeq(rows, RatingInRangeAndPriceParsed)

\* df[(df['Rating'] >= 1) & (df['Rating'] <= 5)]
FilterRating(rows) == SelectSeq(rows, RatingInRange)

InStockText == <<"i", "n", " ", "s", "t", "o", "c", "k">>

\* 'In Stock' if 'in stock' in str(x).lower() else 'Out of Stock'
NormalizeAvailability(x) ==
    IF Contains(Lower(x), InStockText) THEN "In Stock" ELSE "Out of Stock"

CleanAvailability(rows) ==
    [i \in 1..Len(rows) |-> [rows[i] EXCEPT !.Availability = NormalizeAvailability(@)]]

\* BookProcessor._clean_data(df): the cleaned rows, or raised
clean_data(df) ==
    LET kept == DropNa(df.rows)
    IN  IF PriceStrRaises(df.priceDtype)
        THEN [raised |-> TRUE, rows |-> << >>]
        ELSE [raised |-> FALSE,
              rows   |-> CleanAvailability(FilterRating(ConvertRating(ConvertPrice(kept))))]

NoParquet == [exists |-> FALSE, rows |-> << >>]

\* mutant: the rows are appended to the file's rows
AppendParquet(old, rows) == [exists |-> TRUE, rows |-> old.rows \o rows]

\* df.to_parquet(output_parquet, index=False): the file at the fixed path is
\* replaced by the rows of df
WriteParquet(old, rows) == [exists |-> TRUE, rows |-> rows]

\* BookProcessor.process_data(input_csv): the returned value ("None" or the
\* parquet path), the parquet file afterwards and the exception logged.  Any
\* exception (reading, cleaning, writing) is caught and logged, and None is
\* returned.
process_data(file, old, destWritable) ==
    LET df == ReadCsv(file)
        cl == clean_data(df)
    IN  IF df.raised
        THEN [ret |-> "None", parquet |-> old, log |-> "read_csv"]
        ELSE IF cl.raised
        THEN [ret |-> "None", parquet |-> old, log |-> "AttributeError"]
        ELSE IF ~destWritable
        THEN [ret |-> "None", parquet |-> old, log |-> "to_parquet"]
        ELSE [ret |-> "books_data.parquet", parquet |-> WriteParquet(old, cl.rows), log |-> ""]

----------------------------------------------------------------------------
(***************************************************************************)
(* The processing lambdaHandler and its inputs.                            *)
(***************************************************************************)

\* bounds of the model
MaxRows == 2

MaxRuns == 2

Book1 == <<"B", "o", "o", "k", "1">>
Book2 == <<"B", "o", "o", "k", "2">>
Book3 == <<"B", "o", "o", "k", "3">>
Url1 == <<"h", "t", "t", "p", ":", "/", "/", "t", "e", "s", "t", "1">>
Url2 == <<"h", "t", "t", "p", ":", "/", "/", "t", "e", "s", "t", "2">>
Url3 == <<"h", "t", "t", "p", ":", "/", "/", "t", "e", "s", "t", "3">>
Url4 == <<"h", "t", "t", "p", ":", "/", "/", "t", "e", "s", "t", "4">>
InStockLower == <<"i", "n", " ", "s", "t", "o", "c", "k">>
InStockSite == <<"I", "n", " ", "s", "t", "o", "c", "k">>
OutOfStock == <<"o", "u", "t", " ", "o", "f", " ", "s", "t", "o", "c", "k">>
PricePound == <<"£", "5", "1", ".", "7", "7">>
PricePlain == <<"1", "0", ".", "0", "0">>
PriceInvalid == <<"i", "n", "v", "a", "l", "i", "d">>
PriceNegative == <<"-", "5", ".", "0", "0">>
RatingFour == <<"4">>
RatingSix == <<"6">>
RatingHalf == <<"3", ".", "5">>
RatingWord == <<"F", "o", "u", "r">>

\* the rows of sample_data in test_handle_missing_invalid_data, as to_csv
\* writes them (None is written as an empty cell)
SampleRows ==
    << Row(Book1, PricePlain, RatingFour, InStockLower, Url1),
       Row(Book2, <<"1", "5", ".", "5", "0">>, RatingSix, OutOfStock, Url2),
       Row(Book3, PriceInvalid, <<"3">>, InStockLower, Url3),
       Row(NA, <<"2", "0", ".", "0", "0">>, <<"2">>, NA, Url4) >>

BaseRow == Row(Book1, PricePound, RatingFour, InStockSite, Url1)

\* rows that differ from BaseRow in at most one of Price, Rating,
\* Availability, URL, each with the Title present
OneOffRows ==
    {BaseRow}
    \cup {[BaseRow EXCEPT !.Price = p] : p \in {PricePlain, PriceInvalid, PriceNegative}}
    \cup {[BaseRow EXCEPT !.Rating = r] : r \in {RatingSix, RatingHalf, RatingWord}}
    \cup {[BaseRow EXCEPT !.Availability = OutOfStock]}
    \cup {[BaseRow EXCEPT !.URL = NA]}

\* two of them with the Title missing
NullTitleRows ==
    {[r EXCEPT !.Title = NA] :
        r \in {BaseRow, [BaseRow EXCEPT !.Rating = RatingSix]}}

RawRows == OneOffRows \cup NullTitleRows

RECURSIVE SeqsUpTo(_, _)
\* the sequences over S of length at most n
SeqsUpTo(S, n) ==
    IF n = 0 THEN {<< >>}
    ELSE LET shorter == SeqsUpTo(S, n - 1)
         IN  shorter \cup {Append(s, x) : s \in {q \in shorter : Len(q) = n - 1}, x \in S}

RawFiles ==
    {[kind |-> "missing", rows |-> << >>], [kind |-> "empty", rows |-> << >>]}
    \cup {[kind |-> "table", rows |-> rs] : rs \in SeqsUpTo(RawRows, MaxRows) \cup {SampleRows}}

\* a cleaned dataset left at the destination by an earlier run
StaleParquet ==
    [exists |-> TRUE,
     rows   |-> << [Title |-> <<"O", "l", "d">>, Price |-> Num(FALSE, 100, 2), Rating |-> Num(FALSE, 1, 0),
                    Availability |-> "In Stock", URL |-> <<"o", "l", "d">>] >>]

\* identifiers a caller may pass; run_raw_data.json lists "102"
FileIds == {"102", "999"}

ConfiguredIds == {"102"}

NoResult == [statusCode |-> 0, message |-> "", parquet_path |-> "None", error |-> ""]

\* processor.py lambdaHandler(event, context): the result it returns and the
\* effect of the process_data call it makes (none when it fails earlier)
processing_outcome(file_id, configReadable, destWritable) ==
    IF ~configReadable
    THEN [called |-> FALSE, ret |-> "None", parquet |-> parquet, log |-> "",
          result |-> [statusCode |-> 500, message |-> "Processing failed",
                      parquet_path |-> "None", error |-> "OSError"]]
    ELSE IF file_id \notin ConfiguredIds
    THEN [called |-> FALSE, ret |-> "None", parquet |-> parquet, log |-> "",
          result |-> [statusCode |-> 500, message |-> "Processing failed",
                      parquet_path |-> "None", error |-> "ValueError"]]
    ELSE LET r == process_data(rawFile, parquet, destWritable)
         IN  [called |-> TRUE, ret |-> r.ret, parquet |-> r.parquet, log |-> r.log,
              result |-> [statusCode |-> 200, message |-> "Processing completed successfully",
                          parquet_path |-> r.ret, error |-> ""]]

processing_lambdaHandler ==
    /\ runs < MaxRuns
    /\ \E file_id \in FileIds, configReadable \in BOOLEAN, destWritable \in BOOLEAN :
          LET o == processing_outcome(file_id, configReadable, destWritable)
          IN  /\ procResult' = o.result
              /\ parquet' = o.parquet
              /\ procRet' = IF o.called THEN o.ret ELSE procRet
              /\ procLog' = IF o.called THEN o.log ELSE procLog
              /\ writes' = IF o.called /\ o.log = "" THEN writes + 1 ELSE writes
              /\ procCalls' = IF o.called THEN procCalls + 1 ELSE procCalls
    /\ runs' = runs + 1
    /\ UNCHANGED rawFile

----------------------------------------------------------------------------
(***************************************************************************)
(* scrapping/scrapper.py: the crawl.                                       *)
(*                                                                         *)
(* The catalog is the environment: each request draws its outcome when it  *)
(* is made.  A listing page is a sequence of entries (well-formed or       *)
(* malformed) and a 'next' control (absent, a link, or malformed: one      *)
(* without a link).  A detail page is what the two category strategies     *)
(* find in it.  A record of books_data is identified by the listing fetch  *)
(* and the position of its entry; its Title, Price, Rating, Availability   *)
(* and URL are those of the entry.                                         *)
(***************************************************************************)

\* ScrapingConfig.MAX_RETRIES
MAX_RETRIES == 3

\* bound of the model: the largest page ceiling ScrapingConfig.MAX_PAGES is
\* configured with
MaxCeiling == 2

\* config.py defines no MAX_PAGES; a deployment may set one
PageCeilings ==
    {[defined |-> FALSE, value |-> 0]} \cup {[defined |-> TRUE, value |-> n] : n \in 1..MaxCeiling}

Urls == {"page-a", "page-b"}

BaseUrl == "page-a"

PageLayouts ==
    {<< >>, <<"ok">>, <<"ok", "ok">>, <<"malformed", "ok">>}

NextKinds == {"none", "link", "malformed"}

\* what a successfully fetched detail page holds: the text of the 3rd
\* breadcrumb entry (or "absent": no breadcrumb list with 3 entries) and the
\* text of the active category entry (or "absent")
DetailPages ==
    {[status |-> "ok", breadcrumb |-> b, active |-> a] :
        b \in {"absent", "Unknown", "Fiction"}, a \in {"absent", "Poetry"}}

\* no detail request made yet for the entry
NoDetailPage == [status |-> "none", breadcrumb |-> "absent", active |-> "absent"]

\* requests.get or raise_for_status raised a RequestException
FailedRequest == [status |-> "RequestException", breadcrumb |-> "absent", active |-> "absent"]

ScraperIds == {"102", "999"}

ConfiguredScraperIds == {"102"}

NoCsv == [exists |-> FALSE, header |-> FALSE, rows |-> << >>]

\* a raw-record file left by an earlier crawl
StaleCsv ==
    [exists |-> TRUE, header |-> TRUE,
     rows |-> << [page |-> 0, idx |-> 1, Subcategory |-> "Travel"] >>]

NoCrawlResult == [statusCode |-> 0, message |-> "", csv_path |-> "None", error |-> ""]

CsvPath == "books_data.csv"

\* mutant: the active category entry is preferred to the breadcrumb
ResolveActiveFirst(subcat, page) ==
    IF page.active # "absent" THEN page.active
    ELSE IF page.breadcrumb # "absent" THEN page.breadcrumb ELSE subcat

\* the two category strategies on one fetched detail page, starting from the
\* current value of subcategory
ResolveSubcategory(subcat, page) ==
    LET s1 == IF page.breadcrumb # "absent" THEN page.breadcrumb ELSE subcat
    IN  IF s1 = "Unknown" /\ page.active # "absent" THEN page.active ELSE s1

\* mutant: the failed attempt is not counted
RetriesNotCounted(r) == r

\* mutant: a failed attempt is counted twice
RetriesCountedTwice(r) == r + 2

\* retries += 1 in the except branch of the retry loop
RetriesAfterFailure(r) == r + 1

\* mutant: a fetched page in which no strategy found a label ends the loop
UnresolvedEndsLoop(r) == MAX_RETRIES

\* retries += 1 after a fetched page in which no strategy found a label
RetriesAfterUnresolved(r) == r + 1

\* mutant: <= in place of <
LoopConditionInclusive(url, count, ceiling) == url # "None" /\ count <= ceiling.value

\* while page_url and page_count < ScrapingConfig.MAX_PAGES
LoopCondition(url, count, ceiling) == url # "None" /\ count < ceiling.value

\* the result lambdaHandler returns for what scrape_books returned
CrawlResultFor(path) ==
    [statusCode |-> IF path # "None" THEN 200 ELSE 500,
     message    |-> IF path # "None" THEN "Scraping completed successfully" ELSE "Scraping failed",
     csv_path   |-> path,
     error      |-> ""]

CrawlFailure(e) ==
    [statusCode |-> 500, message |-> "Scraping failed", csv_path |-> "None", error |-> e]

\* the record _extract_book_details returns for the entry being extracted
CurrentRecord(subcat) == [page |-> fetches, idx |-> entryIdx, Subcategory |-> subcat]

\* lambdaHandler up to the call of scrape_books: an unreadable
\* run_scrapper.json or an unknown scraper id is caught and reported;
\* otherwise scrape_books starts with page_url = base_url, page_count = 0
scrapping_lambdaHandler ==
    /\ crawlPc = "idle"
    /\ \E scraper_id \in ScraperIds, configReadable \in BOOLEAN :
          IF ~configReadable \/ scraper_id \notin ConfiguredScraperIds
          THEN /\ crawlPc' = "returned"
               /\ crawlResult' = CrawlFailure(IF configReadable THEN "ValueError" ELSE "OSError")
               /\ UNCHANGED <<page_url, page_count, books_data>>
          ELSE /\ crawlPc' = "loop"
               /\ page_url' = BaseUrl
               /\ page_count' = 0
               /\ books_data' = << >>
               /\ UNCHANGED crawlResult
    /\ UNCHANGED <<maxPages, csvFile, fetches, pending, entryIdx, nextKind, retries,
                   subcategory, detailReqs, allTransport,
                   detail_page, visited, itemDone, csv_path>>

\* the loop condition reads ScrapingConfig.MAX_PAGES, which is not defined:
\* AttributeError, caught by scrape_books, which returns None
CeilingUndefined ==
    /\ crawlPc = "loop"
    /\ page_url # "None"
    /\ ~maxPages.defined
    /\ crawlPc' = "returned"
    /\ csv_path' = "None"
    /\ crawlResult' = CrawlResultFor("None")
    /\ UNCHANGED <<maxPages, csvFile, page_url, page_count, fetches, books_data, pending,
                   entryIdx, nextKind, retries, subcategory, detailReqs, allTransport,
                   detail_page, visited,
                   itemDone>>

\* mutant: the failed listing request is made again
ListingFailureRetried == "loop"

\* except requests.RequestException: break, on to the CSV write
AfterListingFailure == "write"

\* requests.get(page_url) in the loop body: a failure breaks out of the loop,
\* a fetched page is parsed into its entries and its 'next' control
FetchListing ==
    /\ crawlPc = "loop"
    /\ maxPages.defined
    /\ LoopCondition(page_url, page_count, maxPages)
    /\ fetches' = fetches + 1
    /\ \/ /\ crawlPc' = AfterListingFailure
          /\ UNCHANGED <<pending, nextKind, entryIdx, visited>>
       \/ /\ \E layout \in PageLayouts, nk \in NextKinds :
                /\ pending' = layout
                /\ nextKind' = nk
                /\ visited' = Append(visited, layout)
          /\ entryIdx' = 0
          /\ crawlPc' = "extract"
    /\ UNCHANGED <<maxPages, csvFile, page_url, page_count, books_data, retries,
                   subcategory, detailReqs, allTransport,
                   detail_page, itemDone, csv_path, crawlResult>>

\* the loop condition is false: the loop ends
LoopExit ==
    /\ crawlPc = "loop"
    /\ page_url = "None" \/ maxPages.defined
    /\ ~LoopCondition(page_url, page_count, maxPages)
    /\ crawlPc' = "write"
    /\ UNCHANGED <<maxPages, csvFile, page_url, page_count, fetches, books_data, pending,
                   entryIdx, nextKind, retries, subcategory, detailReqs, allTransport,
                   detail_page, visited,
                   itemDone, csv_path, crawlResult>>

\* mutant: the parsing of an entry never raises
EntryAlwaysParses(entry) == TRUE

\* the parsing of the entry's title, price, rating, availability and href
\* raises nothing
EntryParses(entry) == entry # "malformed"

\* _extract_book_details(book) up to the retry loop: parsing a malformed
\* entry raises and None is returned (the entry is skipped); otherwise the
\* retry loop starts with retries = 0 and subcategory = "Unknown"
ExtractEntry ==
    /\ crawlPc = "extract"
    /\ pending # << >>
    /\ entryIdx' = entryIdx + 1
    /\ IF ~EntryParses(Head(pending))
       THEN /\ pending' = Tail(pending)
            /\ UNCHANGED <<crawlPc, retries, subcategory, detailReqs, allTransport,
                           detail_page, itemDone>>
       ELSE /\ crawlPc' = "detail"
            /\ retries' = 0
            /\ subcategory' = "Unknown"
            /\ detailReqs' = 0
            /\ allTransport' = TRUE
            /\ detail_page' = NoDetailPage
            /\ itemDone' = FALSE
            /\ UNCHANGED pending
    /\ UNCHANGED <<maxPages, csvFile, page_url, page_count, fetches, books_data, nextKind,
                   visited, csv_path, crawlResult>>

\* mutant: the record is put in front of the list
AccumulateInFront(records, rec) == <<rec>> \o records

\* books_data.append(book_details)
Accumulate(records, rec) == Append(records, rec)

\* the entry's retry loop has ended: its record is appended to books_data
FinishEntry(subcat) ==
    /\ books_data' = Accumulate(books_data, CurrentRecord(subcat))
    /\ pending' = Tail(pending)
    /\ itemDone' = TRUE
    /\ crawlPc' = "extract"

\* one iteration of the retry loop: requests.get(product_url) fails with a
\* RequestException, or the page is fetched and the strategies are applied
DetailAttempt ==
    /\ crawlPc = "detail"
    /\ retries < MAX_RETRIES
    /\ detailReqs' = detailReqs + 1
    /\ \/ \* except requests.RequestException: retries += 1, re-raised when
          \* the retries are used up (caught by the enclosing try)
          /\ retries' = RetriesAfterFailure(retries)
          /\ UNCHANGED <<subcategory, allTransport>>
          /\ detail_page' = FailedRequest
          /\ IF retries' >= MAX_RETRIES
             THEN FinishEntry(subcategory)
             ELSE UNCHANGED <<books_data, pending, itemDone, crawlPc>>
       \/ \E page \in DetailPages :
             LET s == ResolveSubcategory(subcategory, page)
             IN  /\ subcategory' = s
                 /\ allTransport' = FALSE
                 /\ detail_page' = page
                 /\ IF s # "Unknown"
                    THEN /\ UNCHANGED retries
                         /\ FinishEntry(s)
                    ELSE /\ retries' = RetriesAfterUnresolved(retries)
                         /\ IF retries' >= MAX_RETRIES
                            THEN FinishEntry(s)
                            ELSE UNCHANGED <<books_data, pending, itemDone, crawlPc>>
    /\ UNCHANGED <<maxPages, csvFile, page_url, page_count, fetches, entryIdx, nextKind,
                   visited, csv_path, crawlResult>>

\* mutant: following a next link does not count the page
PageCountNotIncremented(count) == count

\* page_count += 1 when a next link is followed
PageCountAfterLink(count) == count + 1

\* after the entries of the page: soup.find('li', class_='next').  Without
\* a next control page_url becomes None; with a link page_url becomes the
\* joined URL and page_count is incremented; a next control without a link
\* raises, scrape_books catches it and returns None
Advance ==
    /\ crawlPc = "extract"
    /\ pending = << >>
    /\ \/ /\ nextKind = "none"
          /\ page_url' = "None"
          /\ crawlPc' = "loop"
          /\ UNCHANGED <<page_count, csv_path, crawlResult>>
       \/ /\ nextKind = "link"
          /\ page_url' \in Urls
          /\ page_count' = PageCountAfterLink(page_count)
          /\ crawlPc' = "loop"
          /\ UNCHANGED <<csv_path, crawlResult>>
       \/ /\ nextKind = "malformed"
          /\ crawlPc' = "returned"
          /\ csv_path' = "None"
          /\ crawlResult' = CrawlResultFor("None")
          /\ UNCHANGED <<page_url, page_count>>
    /\ UNCHANGED <<maxPages, csvFile, fetches, books_data, pending, entryIdx, nextKind,
                   retries, subcategory, detailReqs, allTransport,
                   detail_page, visited, itemDone>>

\* mutant: the header is written whether or not there are records
CsvWithHeaderAlways(records) ==
    [exists |-> TRUE, header |-> TRUE, rows |-> records]

\* what open(csv_path, 'w') and the DictWriter leave in the file: a header
\* and the rows when there are records, nothing at all otherwise
CsvContent(records) ==
    [exists |-> TRUE, header |-> records # << >>, rows |-> records]

\* what the file holds when the header or a row cannot be written (an
\* OSError or an encoding error in writeheader, writerows or the closing of
\* the file): open(csv_path, 'w') has emptied the file, and the header and
\* the first k rows may have reached it
PartialCsv(records, k) ==
    [exists |-> TRUE, header |-> k > 0, rows |-> SubSeq(records, 1, k)]

\* the end of scrape_books and of lambdaHandler: the CSV file is written and
\* its path returned; or the file cannot be opened, or it is opened and the
\* writing of the records raises, and None is returned
WriteCsv ==
    /\ crawlPc = "write"
    /\ \/ /\ csvFile' = CsvContent(books_data)
          /\ csv_path' = CsvPath
          /\ crawlResult' = CrawlResultFor(CsvPath)
       \/ /\ csv_path' = "None"
          /\ crawlResult' = CrawlResultFor("None")
          /\ UNCHANGED csvFile
       \/ /\ books_data # << >>
          /\ \E k \in 0..(Len(books_data) - 1) : csvFile' = PartialCsv(books_data, k)
          /\ csv_path' = "None"
          /\ crawlResult' = CrawlResultFor("None")
    /\ crawlPc' = "returned"
    /\ UNCHANGED <<maxPages, page_url, page_count, fetches, books_data, pending, entryIdx,
                   nextKind, retries, subcategory, detailReqs, allTransport,
                   detail_page, visited, itemDone>>

----------------------------------------------------------------------------
(***************************************************************************)
(* scrapping/scrapper.py: the detail URL of an entry                        *)
(* (_extract_book_details, lines 39-55), with urllib.parse.urljoin          *)
(* computed on the text for URLs without query, parameters or fragment.     *)
(***************************************************************************)
RECURSIVE SplitOn(_, _)
\* s.split(c)
SplitOn(s, c) ==
    IF \A i \in 1..Len(s) : s[i] # c THEN <<s>>
    ELSE LET k == CHOOSE i \in 1..Len(s) : s[i] = c /\ \A j \in 1..(i - 1) : s[j] # c
         IN  <<SubSeq(s, 1, k - 1)>> \o SplitOn(SubSeq(s, k + 1, Len(s)), c)

RECURSIVE JoinWith(_, _)
\* c.join(parts)
JoinWith(parts, c) ==
    IF Len(parts) = 0 THEN << >>
    ELSE IF Len(parts) = 1 THEN parts[1]
    ELSE parts[1] \o <<c>> \o JoinWith(Tail(parts), c)

IsLetter(c) == \E k \in 1..26 : UpperChars[k] = c \/ LowerChars[k] = c

IsSchemeChar(c) == IsLetter(c) \/ IsDigit(c) \/ c \in {"+", "-", "."}

\* the position of the first c in s (Len(s) + 1: there is none)
FirstIndex(s, c) ==
    IF \A i \in 1..Len(s) : s[i] # c THEN Len(s) + 1
    ELSE CHOOSE i \in 1..Len(s) : s[i] = c /\ \A j \in 1..(i - 1) : s[j] # c

\* urlsplit: the length of the scheme of url for its first colon at i
\* (0: it has none)
SchemeLenAt(url, i) ==
    IF i <= Len(url) /\ i > 1 /\ IsLetter(url[1]) /\ \A j \in 1..(i - 1) : IsSchemeChar(url[j])
    THEN i - 1 ELSE 0

SchemeLen(url) == SchemeLenAt(url, FirstIndex(url, ":"))

\* urlsplit: the network location (up to the first slash) and the path
SplitNetloc(scheme, after, cut) ==
    [scheme |-> scheme, netloc |-> SubSeq(after, 1, cut - 1),
     path |-> SubSeq(after, cut, Len(after))]

SplitRest(scheme, rest) ==
    IF StartsWith(rest, <<"/", "/">>)
    THEN SplitNetloc(scheme, SubSeq(rest, 3, Len(rest)),
                     FirstIndex(SubSeq(rest, 3, Len(rest)), "/"))
    ELSE [scheme |-> scheme, netloc |-> << >>, path |-> rest]

SplitScheme(url, default, n) ==
    IF n > 0 THEN SplitRest(Lower(SubSeq(url, 1, n)), SubSeq(url, n + 2, Len(url)))
    ELSE SplitRest(default, url)

\* urlsplit(url, scheme=default): scheme, netloc and path
UrlSplit(url, default) == SplitScheme(url, default, SchemeLen(url))

\* urlunsplit for a scheme that uses a network location
UrlUnsplit(scheme, netloc, path) ==
    scheme \o <<":", "/", "/">> \o netloc
    \o (IF Len(path) > 0 /\ path[1] # "/" THEN <<"/">> ELSE << >>) \o path

IsNonEmpty(seg) == seg # << >>

RECURSIVE ResolveDots(_, _)
\* the loop over the segments: '..' pops, '.' is skipped
ResolveDots(segments, resolved) ==
    IF Len(segments) = 0 THEN resolved
    ELSE IF Head(segments) = <<".", ".">>
    THEN ResolveDots(Tail(segments), SubSeq(resolved, 1, Len(resolved) - 1))
    ELSE IF Head(segments) = <<".">>
    THEN ResolveDots(Tail(segments), resolved)
    ELSE ResolveDots(Tail(segments), Append(resolved, Head(segments)))

\* base_parts: the segments of the base path without its last segment,
\* unless that one is empty
BaseParts(bp) == IF bp[Len(bp)] # << >> THEN SubSeq(bp, 1, Len(bp) - 1) ELSE bp

\* segments[1:-1] = filter(None, segments[1:-1])
FilterMiddle(segs) ==
    IF Len(segs) <= 2 THEN segs
    ELSE <<segs[1]>> \o SelectSeq(SubSeq(segs, 2, Len(segs) - 1), IsNonEmpty)
         \o <<segs[Len(segs)]>>

\* the resolved segments, with an empty last segment after a final dot segment
ResolvedPath(segs) ==
    IF segs[Len(segs)] \in {<<".">>, <<".", ".">>}
    THEN Append(ResolveDots(segs, << >>), << >>)
    ELSE ResolveDots(segs, << >>)

\* '/'.join(resolved_path) or '/'
PathText(joined) == IF joined = << >> THEN <<"/">> ELSE joined

\* the path of the joined URL
MergedPath(bpath, upath) ==
    PathText(JoinWith(ResolvedPath(FilterMiddle(
        IF upath[1] = "/" THEN SplitOn(upath, "/")
        ELSE BaseParts(SplitOn(bpath, "/")) \o SplitOn(upath, "/"))), "/"))

RelativeSchemes == {<<"h", "t", "t", "p">>, <<"h", "t", "t", "p", "s">>, <<"f", "t", "p">>}

JoinParts(b, u, url) ==
    IF u.scheme # b.scheme \/ u.scheme \notin RelativeSchemes THEN url
    ELSE IF u.netloc # << >> THEN UrlUnsplit(u.scheme, u.netloc, u.path)
    ELSE IF u.path = << >> THEN UrlUnsplit(u.scheme, b.netloc, b.path)
    ELSE UrlUnsplit(u.scheme, b.netloc, MergedPath(b.path, u.path))

JoinOnBase(b, url) == JoinParts(b, UrlSplit(url, b.scheme), url)

\* urllib.parse.urljoin(base, url) for a base with a scheme and a netloc
UrlJoin(base, url) ==
    IF Len(base) = 0 THEN url
    ELSE IF Len(url) = 0 THEN base
    ELSE JoinOnBase(UrlSplit(base, << >>), url)

HttpPrefix == <<"h", "t", "t", "p">>
ParentPrefix == <<".", ".", "/">>
CatalogueSuffix == <<"/", "c", "a", "t", "a", "l", "o", "g", "u", "e", "/">>
CataloguePrefix == <<"c", "a", "t", "a", "l", "o", "g", "u", "e", "/">>

\* if relative_url.startswith('http')
TreatedAsAbsolute(href) == StartsWith(href, HttpPrefix)

\* if cleaned_relative_url.startswith('../'): cleaned_relative_url[3:]
StripParent(href) ==
    IF StartsWith(href, ParentPrefix) THEN SubSeq(href, 4, Len(href)) ELSE href

\* product_url as _extract_book_details computes it from the href
ProductUrl(base, href) ==
    IF TreatedAsAbsolute(href) THEN href
    ELSE IF EndsWith(base, CatalogueSuffix)
    THEN UrlJoin(base, StripParent(href))
    ELSE UrlJoin(base, CataloguePrefix \o StripParent(href))

BaseCatalogue == <<"h", "t", "t", "p", ":", "/", "/", "e", "x", "a", "m", "p", "l", "e", ".", "c", "o", "m", "/", "c", "a", "t", "a", "l", "o", "g", "u", "e", "/">>
HrefParentBook == <<".", ".", "/", "b", "o", "o", "k", "_", "1", "/", "i", "n", "d", "e", "x", ".", "h", "t", "m", "l">>
HrefHttpSlug == <<"h", "t", "t", "p", "-", "g", "u", "i", "d", "e", "_", "1", "/", "i", "n", "d", "e", "x", ".", "h", "t", "m", "l">>

BaseUrls ==
    {BaseCatalogue,
     <<"h", "t", "t", "p", ":", "/", "/", "e", "x", "a", "m", "p", "l", "e", ".", "c", "o", "m", "/">>,
     <<"h", "t", "t", "p", ":", "/", "/", "e", "x", "a", "m", "p", "l", "e", ".", "c", "o", "m">>,
     <<"h", "t", "t", "p", ":", "/", "/", "e", "x", "a", "m", "p", "l", "e", ".", "c", "o", "m", "/", "i", "n", "d", "e", "x", ".", "h", "t", "m", "l">>,
     <<"h", "t", "t", "p", ":", "/", "/", "e", "x", "a", "m", "p", "l", "e", ".", "c", "o", "m", "/", "c", "a", "t", "a", "l", "o", "g", "u", "e">>,
     <<"h", "t", "t", "p", ":", "/", "/", "e", "x", "a", "m", "p", "l", "e", ".", "c", "o", "m", "/", "c", "a", "t", "a", "l", "o", "g", "u", "e", "/", "p", "a", "g", "e", "-", "2", ".", "h", "t", "m", "l">>}

Hrefs ==
    {HrefParentBook,
     <<"b", "o", "o", "k", "_", "1", "/", "i", "n", "d", "e", "x", ".", "h", "t", "m", "l">>,
     <<"c", "a", "t", "a", "l", "o", "g", "u", "e", "/", "b", "o", "o", "k", "_", "1", "/", "i", "n", "d", "e", "x", ".", "h", "t", "m", "l">>,
     <<".", ".", "/", ".", ".", "/", "b", "o", "o", "k", "_", "1", "/", "i", "n", "d", "e", "x", ".", "h", "t", "m", "l">>,
     <<"/", "b", "o", "o", "k", "_", "1", "/", "i", "n", "d", "e", "x", ".", "h", "t", "m", "l">>,
     <<"h", "t", "t", "p", ":", "/", "/", "o", "t", "h", "e", "r", ".", "o", "r", "g", "/", "b", ".", "h", "t", "m", "l">>,
     <<"h", "t", "t", "p", "s", ":", "/", "/", "o", "t", "h", "e", "r", ".", "o", "r", "g", "/", "b", ".", "h", "t", "m", "l">>,
     <<"f", "t", "p", ":", "/", "/", "f", "i", "l", "e", "s", ".", "o", "r", "g", "/", "b", ".", "h", "t", "m", "l">>,
     HrefHttpSlug}

\* the URL part of _extract_book_details on one entry
ResolveDetailUrl ==
    /\ ~urlDone
    /\ product_url' = ProductUrl(url_base, relative_url)
    /\ urlDone' = TRUE
    /\ UNCHANGED <<url_base, relative_url>>

----------------------------------------------------------------------------
(***************************************************************************)
(* Specifications.  The two stages are separate invocations; each          *)
(* specification runs one of them and leaves the variables of the others   *)
(* at rest.                                                                *)
(***************************************************************************)
CleanAtRest ==
    /\ rawFile = [kind |-> "missing", rows |-> << >>]
    /\ parquet = NoParquet
    /\ runs = 0
    /\ procCalls = 0
    /\ writes = 0
    /\ procRet = "not called"
    /\ procLog = ""
    /\ procResult = NoResult

CrawlAtRest ==
    /\ maxPages = [defined |-> FALSE, value |-> 0]
    /\ csvFile = NoCsv
    /\ crawlPc = "idle"
    /\ page_url = "None"
    /\ page_count = 0
    /\ fetches = 0
    /\ books_data = << >>
    /\ pending = << >>
    /\ entryIdx = 0
    /\ nextKind = "none"
    /\ retries = 0
    /\ subcategory = "Unknown"
    /\ detailReqs = 0
    /\ allTransport = TRUE
    /\ detail_page = NoDetailPage
    /\ visited = << >>
    /\ itemDone = FALSE
    /\ csv_path = "None"
    /\ crawlResult = NoCrawlResult

UrlAtRest ==
    /\ url_base = << >>
    /\ relative_url = << >>
    /\ product_url = << >>
    /\ urlDone = FALSE

InitClean ==
    /\ rawFile \in RawFiles
    /\ parquet \in {NoParquet, StaleParquet}
    /\ runs = 0
    /\ procCalls = 0
    /\ writes = 0
    /\ procRet = "not called"
    /\ procLog = ""
    /\ procResult = NoResult
    /\ CrawlAtRest
    /\ UrlAtRest

NextClean == processing_lambdaHandler /\ UNCHANGED <<crawlVars, urlVars>>

SpecClean == InitClean /\ [][NextClean]_vars

InitCrawl ==
    /\ maxPages \in PageCeilings
    /\ csvFile \in {NoCsv, StaleCsv}
    /\ crawlPc = "idle"
    /\ page_url = "None"
    /\ page_count = 0
    /\ fetches = 0
    /\ books_data = << >>
    /\ pending = << >>
    /\ entryIdx = 0
    /\ nextKind = "none"
    /\ retries = 0
    /\ subcategory = "Unknown"
    /\ detailReqs = 0
    /\ allTransport = TRUE
    /\ detail_page = NoDetailPage
    /\ visited = << >>
    /\ itemDone = FALSE
    /\ csv_path = "None"
    /\ crawlResult = NoCrawlResult
    /\ CleanAtRest
    /\ UrlAtRest

CrawlOnly == UNCHANGED <<cleanVars, urlVars>>

NextCrawl ==
    \/ scrapping_lambdaHandler /\ CrawlOnly
    \/ CeilingUndefined /\ CrawlOnly
    \/ FetchListing /\ CrawlOnly
    \/ LoopExit /\ CrawlOnly
    \/ ExtractEntry /\ CrawlOnly
    \/ DetailAttempt /\ CrawlOnly
    \/ Advance /\ CrawlOnly
    \/ WriteCsv /\ CrawlOnly

\* the crawl is one sequential call: it takes its next step as long as it has
\* one (every request returns or times out after REQUEST_TIMEOUT)
SpecCrawlFair == InitCrawl /\ [][NextCrawl]_vars /\ WF_vars(NextCrawl)

SpecCrawl == InitCrawl /\ [][NextCrawl]_vars

InitUrl ==
    /\ url_base \in BaseUrls
    /\ relative_url \in Hrefs
    /\ product_url = << >>
    /\ urlDone = FALSE
    /\ CleanAtRest
    /\ CrawlAtRest

NextUrl == ResolveDetailUrl /\ UNCHANGED <<cleanVars, crawlVars>>

SpecUrl == InitUrl /\ [][NextUrl]_vars

----------------------------------------------------------------------------
(***************************************************************************)
(* Properties of the cleaning stage (checked under SpecClean).             *)
(***************************************************************************)
ParquetPath == "books_data.parquet"

Availabilities == {"In Stock", "Out of Stock"}

\* the Rating text of a raw row parses as a number in [1,5]
RatingTextInRange(r) == NumGe(ToNumeric(r.Rating), 1) /\ NumLe(ToNumeric(r.Rating), 5)

\* the Price text of a raw row, with or without a currency-symbol prefix,
\* parses as a decimal
PriceTextParses(r) ==
    IsDecimalText(IF StartsWith(r.Price, <<"£">>) THEN Tail(r.Price) ELSE r.Price)

\* what identifies a raw row in the cleaned output
RawView(rows) ==
    [i \in 1..Len(rows) |-> <<rows[i].Title, rows[i].URL, ToNumeric(rows[i].Rating)>>]

OutView(rows) ==
    [i \in 1..Len(rows) |-> <<rows[i].Title, rows[i].URL, rows[i].Rating>>]

Titles(rows) == [i \in 1..Len(rows) |-> rows[i].Title]

\* C3 as stated: every record of the cleaned output has a Title, a parsed
\* Price that is >= 0 (never NaN, never negative), an integer Rating in [1,5]
\* and an Availability that is "In Stock" or "Out of Stock".
C3_AllFieldConstraints ==
    procRet = ParquetPath =>
        \A i \in 1..Len(parquet.rows) :
            LET o == parquet.rows[i]
            IN  /\ o.Title # NA
                /\ ~o.Price.nan
                /\ NumGe(o.Price, 0)
                /\ NumIsInteger(o.Rating)
                /\ NumGe(o.Rating, 1) /\ NumLe(o.Rating, 5)
                /\ o.Availability \in Availabilities

\* C3 amended: every record of the cleaned output has a Title and a URL, a
\* Rating that is a number in [1,5] (not necessarily an integer) and an
\* Availability that is "In Stock" or "Out of Stock"; its Price is not
\* constrained (it may be NaN or negative).
C3_FieldConstraintsWithoutPrice ==
    procRet = ParquetPath =>
        \A i \in 1..Len(parquet.rows) :
            LET o == parquet.rows[i]
            IN  /\ o.Title # NA
                /\ o.URL # NA
                /\ NumGe(o.Rating, 1) /\ NumLe(o.Rating, 5)
                /\ o.Availability \in Availabilities

\* a cleaned output that holds a NaN Price and a negative Price
C3_Witness ==
    /\ procRet = ParquetPath
    /\ \E i \in 1..Len(parquet.rows) : parquet.rows[i].Price.nan
    /\ \E i \in 1..Len(parquet.rows) :
          ~parquet.rows[i].Price.nan /\ ~NumGe(parquet.rows[i].Price, 0)

\* none of the five fields of a raw record is missing
FivePresent(r) ==
    \A f \in {"Title", "Price", "Rating", "Availability", "URL"} : r[f] # NA

C4Valid(r) == FivePresent(r) /\ PriceTextParses(r) /\ RatingTextInRange(r)

\* C4 as stated: a raw record is in the cleaned output iff its five fields
\* are present, its Price parses and its Rating parses to a number in [1,5];
\* the four-row sample yields exactly the Book1 record.
C4_RetainedIffPriceAndRatingValid ==
    procRet = ParquetPath =>
        /\ OutView(parquet.rows) = RawView(SelectSeq(rawFile.rows, C4Valid))
        /\ (rawFile.rows = SampleRows => Titles(parquet.rows) = <<Book1>>)

C4AmendedValid(r) == FivePresent(r) /\ RatingTextInRange(r)

\* C4 amended: a raw record is in the cleaned output iff its five fields are
\* present and its Rating parses to a number in [1,5]; whether its Price
\* parses does not matter (an unparseable Price is kept as NaN), so the
\* four-row sample yields the Book1 and the Book3 record.  There is a
\* cleaned output only if the Price column was read as text: on a table
\* whose present Price cells are all plain numbers the cleaning raises.
C4_RetainedIffRatingValid ==
    /\ procRet = ParquetPath =>
          /\ OutView(parquet.rows) = RawView(SelectSeq(rawFile.rows, C4AmendedValid))
          /\ (rawFile.rows = SampleRows => Titles(parquet.rows) = <<Book1, Book3>>)
    /\ (procCalls >= 1 /\ rawFile.kind = "table") =>
          (procLog = "AttributeError" <=> PriceDtype(rawFile.rows) = "float64")

C4_Witness ==
    /\ rawFile.rows = SampleRows
    /\ procRet = ParquetPath
    /\ Titles(parquet.rows) = <<Book1, Book3>>
    /\ parquet.rows[2].Price.nan

\* the number of raw rows without a missing critical field whose Rating is
\* in [1,5]
ValidCount(rows) ==
    Cardinality({i \in 1..Len(rows) : FivePresent(rows[i]) /\ RatingTextInRange(rows[i])})

\* C5: a call of process_data that writes the cleaned output writes as many
\* rows as the input has rows without a missing value among the five fields
\* and with a Rating in [1,5] (the Price is no criterion); for the four-row
\* sample that is 2 rows, and the trigger returns status 200.
C5_RowCount ==
    [][procCalls' = procCalls + 1 =>
          /\ procRet' = ParquetPath => Len(parquet'.rows) = ValidCount(rawFile.rows)
          /\ rawFile.rows = SampleRows =>
                /\ procResult'.statusCode = 200
                /\ procRet' = ParquetPath => Len(parquet'.rows) = 2]_vars

C5_Witness ==
    /\ rawFile.rows = SampleRows
    /\ procRet = ParquetPath
    /\ Len(parquet.rows) = 2
    /\ procResult.statusCode = 200
    /\ procResult.parquet_path = ParquetPath

\* the input with the Title of row i present
WithTitle(rows, i) == [rows EXCEPT ![i].Title = Book2]

CleanOf(rows) == clean_data(ReadCsv([kind |-> "table", rows |-> rows]))

OthersValid(r) ==
    /\ r.Price # NA /\ r.Rating # NA /\ r.Availability # NA /\ r.URL # NA
    /\ RatingTextInRange(r)

\* C6 as stated: for an input with a null Title in one record, the cleaned
\* count is exactly one less than that of the same input with that Title
\* present, whatever the record's other fields are.
C6_NullTitleAlwaysOneLess ==
    procRet = ParquetPath =>
        \A i \in 1..Len(rawFile.rows) :
            rawFile.rows[i].Title = NA =>
                Len(parquet.rows) + 1 = Len(CleanOf(WithTitle(rawFile.rows, i)).rows)

\* C6 amended: the cleaning returns for the one input iff it returns for the
\* other, and then the count with the null Title is one less exactly when
\* the record's other four fields are present and its Rating is in [1,5];
\* otherwise the record is dropped either way and the counts are equal.
C6_NullTitleOneLessIfOtherwiseValid ==
    procRet = ParquetPath =>
        \A i \in 1..Len(rawFile.rows) :
            rawFile.rows[i].Title = NA =>
                LET other == CleanOf(WithTitle(rawFile.rows, i))
                IN  /\ ~other.raised
                    /\ Len(other.rows) =
                          Len(parquet.rows) + (IF OthersValid(rawFile.rows[i]) THEN 1 ELSE 0)

C6_Witness ==
    /\ procRet = ParquetPath
    /\ \E i \in 1..Len(rawFile.rows) :
          /\ rawFile.rows[i].Title = NA
          /\ OthersValid(rawFile.rows[i])
          /\ Len(CleanOf(WithTitle(rawFile.rows, i)).rows) = Len(parquet.rows) + 1

\* C7: a run of process_data that follows a run which wrote the cleaned
\* dataset (the raw file is never changed in between) leaves the dataset at
\* the destination with exactly the same records in the same order.
C7_SecondRunSameDataset ==
    [][(procCalls' = procCalls + 1 /\ procRet = ParquetPath) => parquet' = parquet]_vars

C7_Witness ==
    /\ writes >= 2
    /\ procRet = ParquetPath
    /\ Len(parquet.rows) >= 1

\* C9 as stated: the trigger returns a success status only together with the
\* path of a cleaned dataset that was written; when process_data returns its
\* failure signal the status is a failure status and the path is null.
C9_FailureIsReported ==
    runs >= 1 =>
        /\ procResult.statusCode = 200 =>
              (procResult.parquet_path = ParquetPath /\ parquet.exists)
        /\ procResult.parquet_path = "None" => procResult.statusCode # 200

----------------------------------------------------------------------------
(***************************************************************************)
(* Properties of the crawl (checked under SpecCrawl), of the detail URL    *)
(* (under SpecUrl) and of the two triggers.                                *)
(***************************************************************************)

\* C1: for every sequence of detail-fetch outcomes, at most MAX_RETRIES
\* detail-page requests are made for an item; when every attempt failed with
\* a transport error the retry loop ends after exactly MAX_RETRIES requests.
C1_DetailRequestsBounded ==
    /\ detailReqs <= MAX_RETRIES
    /\ (itemDone /\ allTransport) => detailReqs = MAX_RETRIES

C1_Witness ==
    /\ itemDone
    /\ allTransport
    /\ detailReqs = MAX_RETRIES
    /\ Len(books_data) >= 1
    /\ books_data[Len(books_data)].Subcategory = "Unknown"

\* C2: with a page ceiling N >= 1 the number of listing-page fetches never
\* exceeds N, and once a fetched listing page has been processed the next
\* step is a fetch of the next listing page if and only if that page has a
\* next link and fewer than N pages have been fetched; otherwise the crawl
\* stops.
C2_PaginationStops ==
    /\ [](maxPages.defined => fetches <= maxPages.value)
    /\ [][(crawlPc = "loop" /\ fetches >= 1) =>
              /\ (fetches' = fetches + 1) <=> (nextKind = "link" /\ fetches < maxPages.value)
              /\ (fetches' = fetches) => crawlPc' = "write"]_vars

\* the ceiling stopped the crawl on a page that has a next link
C2_Witness ==
    /\ crawlPc = "write"
    /\ maxPages.defined
    /\ fetches = maxPages.value
    /\ fetches >= 2
    /\ page_count = fetches
    /\ nextKind = "link"
    /\ page_url # "None"

\* an href is absolute when it starts with a scheme
IsAbsoluteUrl(href) == SchemeLen(href) > 0

ExampleDetailUrl == <<"h", "t", "t", "p", ":", "/", "/", "e", "x", "a", "m", "p", "l", "e", ".", "c", "o", "m", "/", "c", "a", "t", "a", "l", "o", "g", "u", "e", "/", "b", "o", "o", "k", "_", "1", "/", "i", "n", "d", "e", "x", ".", "h", "t", "m", "l">>

\* C8: an href that is already absolute is used unchanged; any other href
\* has one leading '../' stripped and is resolved against the base URI, with
\* 'catalogue/' inserted exactly when the base URI does not end with
\* '/catalogue/'.  Base 'http://example.com/catalogue/' and href
\* '../book_1/index.html' give 'http://example.com/catalogue/book_1/index.html'.
C8_DetailUrlResolution ==
    urlDone =>
        /\ product_url =
              IF IsAbsoluteUrl(relative_url) THEN relative_url
              ELSE UrlJoin(url_base,
                           (IF EndsWith(url_base, CatalogueSuffix) THEN << >> ELSE CataloguePrefix)
                           \o (IF StartsWith(relative_url, ParentPrefix)
                               THEN SubSeq(relative_url, 4, Len(relative_url))
                               ELSE relative_url))
        /\ (url_base = BaseCatalogue /\ relative_url = HrefParentBook)
              => product_url = ExampleDetailUrl

\* C10: whatever fault occurs during a call, each trigger returns a result
\* with a failure status and a message; the crawl trigger returns the
\* success status exactly when scrape_books returned a path.
C10_TriggersReportFaults ==
    /\ runs >= 1 =>
          /\ procResult.statusCode \in {200, 500}
          /\ procResult.message # ""
          /\ (procResult.error # "" \/ procLog # "") => procResult.statusCode = 500
    /\ crawlPc = "returned" =>
          /\ crawlResult.statusCode \in {200, 500}
          /\ crawlResult.message # ""
          /\ crawlResult.error # "" => crawlResult.statusCode = 500
          /\ crawlResult.statusCode = 200 <=> csv_path # "None"

\* the loop of scrape_books was left by the break of a failed listing fetch:
\* its condition still holds
ListingFetchFailed ==
    /\ crawlPc \in {"write", "returned"}
    /\ maxPages.defined
    /\ csv_path # "None" \/ crawlPc = "write"
    /\ LoopCondition(page_url, page_count, maxPages)

\* C11: when the fetch of listing page k fails, the fetch is not made again,
\* no further listing or detail page is requested, and the records handed to
\* the writer are exactly those accumulated from pages 1..k-1, unchanged.
C11_ListingFailureEndsCrawl ==
    /\ [][(crawlPc = "loop" /\ fetches' = fetches + 1 /\ crawlPc' # "extract") =>
              /\ crawlPc' = "write"
              /\ books_data' = books_data
              /\ \A i \in 1..Len(books_data') : books_data'[i].page < fetches']_vars
    /\ [][crawlPc = "write" =>
              /\ fetches' = fetches
              /\ detailReqs' = detailReqs
              /\ books_data' = books_data
              /\ crawlPc' = "returned"
              /\ csv_path' = CsvPath => csvFile'.rows = books_data]_vars

\* the fetch of the second listing page failed and the records of the first
\* page were written
C11_Witness ==
    /\ crawlPc = "returned"
    /\ ListingFetchFailed
    /\ fetches = 2
    /\ books_data # << >>
    /\ csv_path = CsvPath
    /\ csvFile.rows = books_data

\* C12: a listing page whose 'next' control holds no link does not abort the
\* crawl: scrape_books goes on to completion with the records accumulated
\* from that page and the earlier pages, which are then written.
C12_MalformedNextDoesNotAbort ==
    [][(crawlPc = "extract" /\ pending = << >> /\ nextKind = "malformed") =>
           /\ crawlPc' # "returned"
           /\ books_data' = books_data]_vars

\* C13: when the parsing of a listing entry raises, no record is returned for
\* the entry and no detail page is requested for it; scrape_books goes on
\* with the remaining entries of the page and with the later pages, and the
\* records of the other entries are untouched.
C13_MalformedEntryIsDropped ==
    [][(crawlPc = "extract" /\ pending # << >> /\ Head(pending) = "malformed") =>
           /\ books_data' = books_data
           /\ detailReqs' = detailReqs
           /\ fetches' = fetches
           /\ crawlPc' = "extract"
           /\ pending' = Tail(pending)
           /\ <<page_url, page_count, nextKind>>' = <<page_url, page_count, nextKind>>]_vars

\* the first entry of the first page was dropped, the second entry of that
\* page and an entry of the second page gave their records
C13_Witness ==
    /\ Len(books_data) = 2
    /\ books_data[1].page = 1 /\ books_data[1].idx = 2
    /\ books_data[2].page = 2 /\ books_data[2].idx = 1

\* a step of the retry loop in which the detail page was fetched and neither
\* strategy resolved a label
FetchedUnresolved ==
    /\ crawlPc = "detail"
    /\ detailReqs' = detailReqs + 1
    /\ detail_page'.status = "ok"
    /\ subcategory' = "Unknown"

\* C14 as stated: a further detail request follows only a transport failure;
\* once a detail page has been fetched with no label resolved, the page is
\* not fetched again and the resolution ends with "Unknown".
C14_RetryOnlyOnTransportFailure ==
    /\ [][(crawlPc = "detail" /\ detailReqs >= 1 /\ detailReqs' = detailReqs + 1) =>
              detail_page.status = "RequestException"]_vars
    /\ [][FetchedUnresolved => (crawlPc' = "extract" /\ itemDone')]_vars

\* C14 amended: a fetched page in which no strategy resolved a label counts
\* as an attempt like a transport failure does: the page is requested again
\* unless that was attempt MAX_RETRIES, so a resolution that ends with
\* "Unknown" has made exactly MAX_RETRIES requests.
C14_UnresolvedPageIsRefetched ==
    /\ [][(crawlPc = "detail" /\ detailReqs >= 1 /\ detailReqs' = detailReqs + 1) =>
              \/ detail_page.status = "RequestException"
              \/ detail_page.status = "ok" /\ subcategory = "Unknown"]_vars
    /\ [][FetchedUnresolved =>
              /\ (crawlPc' = "extract" /\ itemDone') <=> detailReqs' = MAX_RETRIES
              /\ (crawlPc' = "detail" /\ ~itemDone') <=> detailReqs' < MAX_RETRIES]_vars
    /\ [](itemDone /\ subcategory = "Unknown" => detailReqs = MAX_RETRIES)

\* the resolution ended with "Unknown" after MAX_RETRIES requests of which
\* the last fetched the page
C14_Witness ==
    /\ itemDone
    /\ subcategory = "Unknown"
    /\ detailReqs = MAX_RETRIES
    /\ detail_page.status = "ok"
    /\ ~allTransport

\* the breadcrumb strategy yields nothing on the page: no breadcrumb list
\* with 3 entries, or a 3rd entry that reads as the default label
BreadcrumbYieldsNothing(page) == page.breadcrumb \in {"absent", "Unknown"}

\* C15: on the first attempt in which a strategy yields a non-default label
\* the resolution stops and no further detail request is made for the item.
\* A non-default 3rd breadcrumb entry is the Subcategory whatever the
\* active-category navigation holds; the active entry is used only when the
\* breadcrumb strategy yielded nothing.
C15_FirstLabelStopsResolution ==
    /\ [][(crawlPc = "detail" /\ detailReqs' = detailReqs + 1 /\ detail_page'.status = "ok") =>
              /\ ~BreadcrumbYieldsNothing(detail_page') => subcategory' = detail_page'.breadcrumb
              /\ subcategory' = detail_page'.active =>
                    (BreadcrumbYieldsNothing(detail_page') /\ detail_page'.active # "absent")
              /\ (BreadcrumbYieldsNothing(detail_page') /\ detail_page'.active # "absent") =>
                    subcategory' = detail_page'.active
              /\ subcategory' # "Unknown" =>
                    /\ itemDone' /\ crawlPc' = "extract"
                    /\ books_data' = Append(books_data,
                                            [page |-> fetches, idx |-> entryIdx,
                                             Subcategory |-> subcategory'])]_vars
    /\ [][itemDone => (detailReqs' = detailReqs \/ (detailReqs' = 0 /\ entryIdx' = entryIdx + 1))]_vars
    /\ [](subcategory # "Unknown" => itemDone)

\* the first request fetched a page with a 3rd breadcrumb entry and an active
\* category entry: the record carries the breadcrumb's text
C15_Witness ==
    /\ itemDone
    /\ detailReqs = 1
    /\ detail_page.status = "ok"
    /\ detail_page.breadcrumb = "Fiction"
    /\ detail_page.active = "Poetry"
    /\ books_data # << >>
    /\ books_data[Len(books_data)] = [page |-> fetches, idx |-> entryIdx, Subcategory |-> "Fiction"]

\* C16: a transport failure of a detail request counts as exactly one
\* attempt; when the attempts are used up the entry's record is still
\* appended, with Subcategory "Unknown", and the crawl goes on with the next
\* entry of the page.
C16_ExhaustionIsNotFatal ==
    [][(crawlPc = "detail" /\ detailReqs' = detailReqs + 1
            /\ detail_page'.status = "RequestException") =>
           /\ retries' = retries + 1
           /\ subcategory' = "Unknown"
           /\ <<page_url, page_count, fetches, nextKind, csv_path>>' =
                 <<page_url, page_count, fetches, nextKind, csv_path>>
           /\ IF retries' >= MAX_RETRIES
              THEN /\ books_data' = Append(books_data,
                                           [page |-> fetches, idx |-> entryIdx,
                                            Subcategory |-> "Unknown"])
                   /\ crawlPc' = "extract"
                   /\ pending' = Tail(pending)
              ELSE /\ books_data' = books_data
                   /\ crawlPc' = "detail"
                   /\ pending' = pending]_vars

\* the last attempt for the first entry of a page failed at the transport
\* level, its record was appended and the second entry is still to come
C16_Witness ==
    /\ crawlPc = "extract"
    /\ itemDone
    /\ detail_page = FailedRequest
    /\ retries = MAX_RETRIES
    /\ pending # << >>
    /\ books_data # << >>
    /\ books_data[Len(books_data)] = [page |-> fetches, idx |-> entryIdx, Subcategory |-> "Unknown"]

RECURSIVE PageIds(_, _, _)
\* page number and position of the entries of a page that give a record,
\* from position i on
PageIds(layout, n, i) ==
    IF i > Len(layout) THEN << >>
    ELSE (IF layout[i] = "ok" THEN << <<n, i>> >> ELSE << >>) \o PageIds(layout, n, i + 1)

RECURSIVE AllIds(_, _)
\* the same for the fetched pages from the k-th on, in order of the fetches
AllIds(pages, k) ==
    IF k > Len(pages) THEN << >>
    ELSE PageIds(pages[k], k, 1) \o AllIds(pages, k + 1)

RecordIds(records) == [i \in 1..Len(records) |-> <<records[i].page, records[i].idx>>]

IsPrefix(s, t) == Len(s) <= Len(t) /\ s = SubSeq(t, 1, Len(s))

\* C17: a fetched listing page is processed to its last entry before the
\* ceiling is consulted or another listing page is fetched; the accumulated
\* list is, in page order and then entry order, one record for every entry
\* of every fetched page whose extraction gave a record, none twice and
\* none out of place.
C17_RecordsInPageThenEntryOrder ==
    /\ [](IsPrefix(RecordIds(books_data), AllIds(visited, 1)))
    /\ [](crawlPc \in {"loop", "write", "returned"} =>
              RecordIds(books_data) = AllIds(visited, 1))
    /\ [][(fetches' # fetches \/ page_count' # page_count \/ page_url' # page_url) =>
              (pending = << >> /\ RecordIds(books_data) = AllIds(visited, 1))]_vars

\* two pages were fetched, the first with a dropped entry, and the three
\* records are there when the loop has ended
C17_Witness ==
    /\ crawlPc = "write"
    /\ visited = << <<"malformed", "ok">>, <<"ok", "ok">> >>
    /\ RecordIds(books_data) = << <<1, 2>>, <<2, 1>>, <<2, 2>> >>

\* C18: with a page ceiling N and the retry ceiling MAX_RETRIES every run of
\* scrape_books comes to its end, whatever the catalog answers (next links
\* that form a cycle, detail requests that all fail or never resolve); it
\* makes at most N listing requests, and at most MAX_RETRIES detail requests
\* for an entry, each entry of a fetched page being taken once.
C18_CrawlTerminates ==
    /\ [](maxPages.defined => (fetches <= maxPages.value /\ Len(visited) <= fetches))
    /\ [](detailReqs <= MAX_RETRIES)
    /\ [](visited # << >> => entryIdx <= Len(visited[Len(visited)]))
    /\ [][detailReqs' < detailReqs => (detailReqs' = 0 /\ entryIdx' = entryIdx + 1)]_vars
    /\ [][entryIdx' # entryIdx => (entryIdx' = entryIdx + 1 \/ (entryIdx' = 0 /\ fetches' = fetches + 1))]_vars
    /\ <>(crawlPc = "returned")

\* the ceiling ended a crawl whose every page had a next link, after a
\* resolution that used up its attempts
C18_Witness ==
    /\ crawlPc = "returned"
    /\ maxPages.defined
    /\ fetches = maxPages.value
    /\ fetches >= 2
    /\ page_url # "None"
    /\ detailReqs = MAX_RETRIES
    /\ csv_path = CsvPath

\* C19: when the writing of the raw-record file does not complete,
\* scrape_books returns None and a raw-record file that an earlier crawl
\* wrote holds what it held before.
C19_FailedWriteKeepsEarlierFile ==
    /\ [][(crawlPc = "write" /\ csvFile.exists /\ csv_path' = "None") => csvFile' = csvFile]_vars
    /\ [][(crawlPc = "write" /\ csvFile' # CsvContent(books_data)) => csv_path' = "None"]_vars

\* a file with no header and no rows
EmptyCsv == [exists |-> TRUE, header |-> FALSE, rows |-> << >>]

\* C20: a crawl whose loop ends with zero records (the first listing fetch
\* failed, or every entry was dropped) goes on to the write without raising:
\* unless the file cannot be opened, the fixed path is left with no header
\* and no rows, whatever an earlier crawl wrote there, the path is returned
\* and the trigger reports status 200.
C20_EmptyCrawlWritesEmptyFile ==
    /\ [][(crawlPc = "loop" /\ fetches = 0 /\ fetches' = 1 /\ crawlPc' # "extract") =>
              (crawlPc' = "write" /\ books_data' = << >>)]_vars
    /\ [][(crawlPc = "write" /\ books_data = << >>) =>
              /\ crawlPc' = "returned"
              /\ csv_path' = "None" => csvFile' = csvFile
              /\ csv_path' # "None" =>
                    /\ csvFile' = EmptyCsv
                    /\ csv_path' = CsvPath
                    /\ crawlResult' = [statusCode |-> 200,
                                       message |-> "Scraping completed successfully",
                                       csv_path |-> CsvPath, error |-> ""]]_vars

\* every entry of the one fetched page was dropped and the empty file is
\* there, reported with status 200
C20_Witness ==
    /\ crawlPc = "returned"
    /\ visited = << <<"malformed", "ok">> >> \/ visited = << << >> >>
    /\ books_data = << >>
    /\ csvFile = EmptyCsv
    /\ csv_path = CsvPath
    /\ crawlResult.statusCode = 200

============================================================================
